---- MODULE Spec2Model ----
(***************************************************************************)
(* scarb-hints-run: the driver that resolves the oracle lock manifest,     *)
(* loads it and the compiled Sierra program, hands both to the executor    *)
(* (run_1) and reports the outcome.                                        *)
(*                                                                         *)
(* Representation.                                                         *)
(*   - A path is the sequence of its components; an absolute path starts   *)
(*     with the root component "/".                                        *)
(*   - Option<T> is a record: None, or Some(x) with the value under val.   *)
(*   - A JSON value is a record tagged by kind ("null", "number",          *)
(*     "string", "object"); a JSON string that holds a path holds it as    *)
(*     the path's components.                                              *)
(*   - A felt is a natural number; to_be_bytes yields FeltBytes bytes.     *)
(*   - A printed line is a sequence of pieces: literal text, or text       *)
(*     decoded from UTF-8 bytes.                                           *)
(***************************************************************************)
EXTENDS Integers, Sequences, FiniteSets, TLC

VARIABLES
    argv,                   \* the command line as given
    args,                   \* Option: the parsed command line (struct Args)
    package,                \* the PackageMetadata scarb reports
    cwd,                    \* the process's current working directory
    call,                   \* config_key and default handed to absolute_path
    pc,                     \* position in main
    log,                    \* collaborators invoked so far, in order
    lock_output,            \* Option<PathBuf> returned by absolute_path
    service_configuration,  \* Option: the parsed lock manifest
    sierra_program,         \* Option: the loaded program
    run_result,             \* Option: what run_1 returned
    dispatched,             \* oracle calls sent to the oracle server
    stdout,                 \* lines printed
    exit                    \* how the process ended

vars == <<argv, args, package, cwd, call, pc, log, lock_output, service_configuration,
          sierra_program, run_result, dispatched, stdout, exit>>

----------------------------------------------------------------------------
(* Bounds *)

MaxPayload == 2     \* longest return-value list / panic payload
MaxCalls == 2       \* most oracle calls a program issues

----------------------------------------------------------------------------
(* Option and small helpers *)

None == [some |-> FALSE]
Some(x) == [some |-> TRUE, val |-> x]

\* Option::or_else / Option::or
OrElse(a, b) == IF a.some THEN a ELSE b

SeqsUpTo(S, n) == UNION {[1..k -> S] : k \in 0..n}

----------------------------------------------------------------------------
(* Layout validation *)

Layouts ==
    {"plain", "small", "dex", "starknet", "starknet_with_keccak",
     "recursive_large_output", "all_cairo", "all_solidity", "dynamic"}

\* Result<String, String>
Ok(v) == [ok |-> TRUE, val |-> v]
Err(e) == [ok |-> FALSE, err |-> e]

\* variant: no validation
validate_layout_accept_all(value) == Ok(value)

\* variant: one match arm lost
validate_layout_missing_dynamic(value) ==
    IF value \in (Layouts \ {"dynamic"})
        THEN Ok(value)
        ELSE Err(value \o " is not a valid layout")

validate_layout(value) ==
    IF value \in Layouts
        THEN Ok(value)
        ELSE Err(value \o " is not a valid layout")

----------------------------------------------------------------------------
(* Paths *)

is_absolute(p) == Len(p) > 0 /\ p[1] = "/"

\* Path::parent of a path with at least two components
parent(p) == SubSeq(p, 1, Len(p) - 1)

\* Path::join: an absolute argument replaces the base
join(base, p) == IF is_absolute(p) THEN p ELSE base \o p

----------------------------------------------------------------------------
(* JSON values of the manifest's [tool] table *)

JNull == [kind |-> "null"]
JNumber(n) == [kind |-> "number", num |-> n]
JString(s) == [kind |-> "string", str |-> s]
JObject(o) == [kind |-> "object", obj |-> o]

\* serde_json: value[key] is Null unless value is an object holding key
Index(value, key) ==
    IF value.kind = "object" /\ key \in DOMAIN value.obj
        THEN value.obj[key]
        ELSE JNull

as_str(value) == IF value.kind = "string" THEN Some(value.str) ELSE None

\* PackageMetadata::tool_metadata
tool_metadata(pkg, tool) ==
    IF tool \in DOMAIN pkg.tool THEN Some(pkg.tool[tool]) ELSE None

----------------------------------------------------------------------------
(* Lock resolution *)

\* the path chosen among the three sources, by precedence
\* variant: the manifest consulted before the argument
definitions_manifest_first(pkg, arg, config_key, default) ==
    LET tool_config == tool_metadata(pkg, "hints")
        from_manifest ==
            IF tool_config.some
                THEN as_str(Index(tool_config.val, config_key))
                ELSE None
    IN  OrElse(OrElse(from_manifest, arg), default)

definitions(pkg, arg, config_key, default) ==
    LET tool_config == tool_metadata(pkg, "hints")
        from_manifest ==
            IF tool_config.some
                THEN as_str(Index(tool_config.val, config_key))
                ELSE None
    IN  OrElse(OrElse(arg, from_manifest), default)

\* variant: relative paths joined to the working directory
absolute_path_cwd(pkg, arg, config_key, default) ==
    LET chosen == definitions(pkg, arg, config_key, default)
    IN  IF ~chosen.some THEN None
        ELSE IF is_absolute(chosen.val) THEN Some(chosen.val)
        ELSE Some(join(cwd, chosen.val))

absolute_path(pkg, arg, config_key, default) ==
    LET manifest_path == pkg.manifest_path
        project_dir == parent(manifest_path)
        chosen == definitions(pkg, arg, config_key, default)
    IN  IF ~chosen.some THEN None
        ELSE IF is_absolute(chosen.val) THEN Some(chosen.val)
        ELSE Some(join(project_dir, chosen.val))

----------------------------------------------------------------------------
(* Felts and their rendering *)

FeltBytes == 32     \* Felt252::to_be_bytes returns [u8; 32]

RECURSIVE BytesBE(_, _)
\* the n low-order bytes of m, most significant first
BytesBE(m, n) ==
    IF n = 0 THEN <<>> ELSE Append(BytesBE(m \div 256, n - 1), m % 256)

\* variant: least significant byte first
RECURSIVE BytesLE(_, _)
BytesLE(m, n) ==
    IF n = 0 THEN <<>> ELSE <<m % 256>> \o BytesLE(m \div 256, n - 1)

to_le_bytes(m) == BytesLE(m, FeltBytes)

to_be_bytes(m) == BytesBE(m, FeltBytes)

\* length of the well-formed UTF-8 sequence that starts at b[i], 0 if none
Utf8Width(b, i) ==
    LET n == Len(b)
        b0 == b[i]
        c(k, lo, hi) == i + k <= n /\ b[i + k] \in lo..hi
    IN  IF b0 <= 127 THEN 1
        ELSE IF b0 \in 194..223 /\ c(1, 128, 191) THEN 2
        ELSE IF b0 = 224 /\ c(1, 160, 191) /\ c(2, 128, 191) THEN 3
        ELSE IF b0 \in 225..236 /\ c(1, 128, 191) /\ c(2, 128, 191) THEN 3
        ELSE IF b0 = 237 /\ c(1, 128, 159) /\ c(2, 128, 191) THEN 3
        ELSE IF b0 \in 238..239 /\ c(1, 128, 191) /\ c(2, 128, 191) THEN 3
        ELSE IF b0 = 240 /\ c(1, 144, 191) /\ c(2, 128, 191) /\ c(3, 128, 191) THEN 4
        ELSE IF b0 \in 241..243 /\ c(1, 128, 191) /\ c(2, 128, 191) /\ c(3, 128, 191) THEN 4
        ELSE IF b0 = 244 /\ c(1, 128, 143) /\ c(2, 128, 191) /\ c(3, 128, 191) THEN 4
        ELSE 0

RECURSIVE ValidUtf8From(_, _)
ValidUtf8From(b, i) ==
    IF i > Len(b) THEN TRUE
    ELSE LET w == Utf8Width(b, i)
         IN  w > 0 /\ ValidUtf8From(b, i + w)

\* String::from_utf8: Ok(the text held in the bytes) or Err
from_utf8(b) == IF ValidUtf8From(b, 1) THEN Ok(b) ELSE Err("FromUtf8Error")

\* pieces of printed text
Lit(s) == [k |-> "lit", s |-> s]
Text(b) == [k |-> "utf8", b |-> b]

to_string(m) == <<Lit(ToString(m))>>

\* variant: decoding the little-endian bytes
render_panic_value_le(m) ==
    LET msg == from_utf8(to_le_bytes(m))
    IN  IF msg.ok
            THEN <<Lit(ToString(m)), Lit(" ('"), Text(msg.val), Lit("')")>>
            ELSE to_string(m)

\* the closure mapped over panic_data
render_panic_value(m) ==
    LET msg == from_utf8(to_be_bytes(m))
    IN  IF msg.ok
            THEN <<Lit(ToString(m)), Lit(" ('"), Text(msg.val), Lit("')")>>
            ELSE to_string(m)

RECURSIVE join_sep(_, _)
\* Itertools::join over already rendered items
join_sep(items, sep) ==
    IF Len(items) = 0 THEN <<>>
    ELSE IF Len(items) = 1 THEN items[1]
    ELSE items[1] \o <<Lit(sep)>> \o join_sep(Tail(items), sep)

return_values_line(return_values) ==
    <<Lit("Return values : [")>>
        \o join_sep([i \in 1..Len(return_values) |-> to_string(return_values[i])], ", ")
        \o <<Lit("]")>>

panic_line(panic_data) ==
    <<Lit("Run panicked with: [")>>
        \o join_sep([i \in 1..Len(panic_data) |-> render_panic_value(panic_data[i])], ", ")
        \o <<Lit("]")>>

----------------------------------------------------------------------------
(* The executor *)

\* cairo_oracle_hint_processor::Error
Error(kind, data, service) == [kind |-> kind, data |-> data, service |-> service]

\* run_1: the program's oracle calls are checked one by one against the
\* configuration and dispatched to the oracle server; the first call that
\* is not declared, or that has no server to go to, aborts the run;
\* otherwise the run ends the way the program ends.
run_1(configuration, oracle_server, program) ==
    LET calls == program.calls
        stopped == {i \in 1..Len(calls) :
                        calls[i] \notin configuration \/ ~oracle_server.some}
        first == CHOOSE i \in stopped : \A j \in stopped : i <= j
        end == program.terminal
    IN  IF stopped # {}
            THEN [result |->
                    IF calls[first] \notin configuration
                        THEN Err(Error("UnauthorizedOracleCall", <<>>, calls[first]))
                        ELSE Err(Error("ExecutorFailure", <<>>, calls[first])),
                  dispatched |-> SubSeq(calls, 1, first - 1)]
            ELSE [result |->
                    IF end.kind = "return" THEN Ok(end.vals)
                    ELSE IF end.kind = "panic" THEN Err(Error("RunPanic", end.vals, ""))
                    ELSE Err(Error(end.kind, <<>>, "")),
                  dispatched |-> calls]

----------------------------------------------------------------------------
(* main's match on the executor's result *)

Exit(tag, detail, err) == [tag |-> tag, detail |-> detail, err |-> err]
Running == Exit("running", "", None)

\* variant: every result reported as success
main_match_all_ok(result, out) == [stdout |-> out, exit |-> Exit("ok", "", None)]

\* variant: no RunPanic arm
main_match_panic_is_error(result, out) ==
    IF result.ok
        THEN [stdout |-> IF result.val # <<>>
                            THEN Append(out, return_values_line(result.val))
                            ELSE out,
              exit |-> Exit("ok", "", None)]
    ELSE IF result.err.kind = "Cli"
        THEN [stdout |-> out, exit |-> Exit("cli_exit", "", Some(result.err))]
    ELSE [stdout |-> out, exit |-> Exit("err", "", Some(result.err))]

\* variant: no is_empty guard
main_match_prints_empty(result, out) ==
    IF result.ok
        THEN [stdout |-> Append(out, return_values_line(result.val)),
              exit |-> Exit("ok", "", None)]
    ELSE IF result.err.kind = "Cli"
        THEN [stdout |-> out, exit |-> Exit("cli_exit", "", Some(result.err))]
    ELSE IF result.err.kind = "RunPanic"
        THEN [stdout |-> Append(out, panic_line(result.err.data)),
              exit |-> Exit("ok", "", None)]
    ELSE [stdout |-> out, exit |-> Exit("err", "", Some(result.err))]

main_match(result, out) ==
    IF result.ok
        THEN [stdout |-> IF result.val # <<>>
                            THEN Append(out, return_values_line(result.val))
                            ELSE out,
              exit |-> Exit("ok", "", None)]
    ELSE IF result.err.kind = "Cli"
        THEN [stdout |-> out, exit |-> Exit("cli_exit", "", Some(result.err))]
    ELSE IF result.err.kind = "RunPanic"
        THEN [stdout |-> IF result.err.data # <<>>
                            THEN Append(out, panic_line(result.err.data))
                            ELSE out,
              exit |-> Exit("ok", "", None)]
    ELSE [stdout |-> out, exit |-> Exit("err", "", Some(result.err))]

----------------------------------------------------------------------------
(* Inputs *)

LayoutInputs ==
    Layouts \cup {"", "Plain", "all", "plain,small", "starknet_with_keccak2"}

ManifestPaths == {<<"/", "proj", "Scarb.toml">>, <<"/", "ws", "pkg", "Scarb.toml">>}

RelativePaths == {<<"Oracle.lock">>, <<"locks", "my.lock">>, <<"..", "shared.lock">>}
AbsolutePaths == {<<"/", "etc", "oracle.lock">>}

\* the [tool] tables a manifest may hold
ToolTables ==
    {  <<>>,                                                         \* no [tool.hints]
       [hints |-> JObject(<<>>)],                                     \* empty section
       [hints |-> JObject([definitions |-> JString(<<"x.lock">>)])],  \* other key only
       [hints |-> JObject([oracle_lock |-> JNumber(42)])],            \* not a string
       [hints |-> JString(<<"cfg.lock">>)],                           \* not a table
       [hints |-> JObject([oracle_lock |-> JString(<<"cfg", "tool.lock">>)])],
       [hints |-> JObject([oracle_lock |-> JString(<<"/", "abs", "tool.lock">>)])] }

WorkingDirs == {<<"/", "proj">>, <<"/", "home", "user">>}

Services == {"sqrt", "shirts"}
Configurations == {{}, {"shirts"}}

\* values whose big-endian bytes are, in turn: all NUL; "A"; a lone
\* continuation byte; U+00E9; an overlong NUL; a surrogate; U+20AC
FeltSamples == {0, 65, 128, 50089, 49280, 15573120, 14844588}
RunFelts == {65, 128}

Terminals(felts) ==
    [kind : {"return", "panic"}, vals : SeqsUpTo(felts, MaxPayload)]
        \cup [kind : {"Cli", "IO", "ExecutorFailure"}, vals : {<<>>}]

Programs == [calls : SeqsUpTo(Services, MaxCalls), terminal : Terminals(RunFelts)]

MainCall == [config_key |-> "oracle_lock", default |-> Some(<<"Oracle.lock">>)]

----------------------------------------------------------------------------
(* main, step by step *)

CommandLines ==
    [layout : LayoutInputs,
     no_build : BOOLEAN,
     oracle_lock : {None, Some(<<"locks", "my.lock">>)},
     oracle_server : {None, Some("http://127.0.0.1:3000")}]

HintsPoc ==
    [name |-> "hints_poc",
     manifest_path |-> <<"/", "proj", "Scarb.toml">>,
     tool |-> [hints |-> JObject([oracle_lock |-> JString(<<"cfg", "tool.lock">>)])]]

Init ==
    /\ argv \in CommandLines
    /\ args = None
    /\ package = HintsPoc
    /\ cwd = <<"/", "proj">>
    /\ call = MainCall
    /\ pc = "parse"
    /\ log = <<>>
    /\ lock_output = None
    /\ service_configuration = None
    /\ sierra_program = None
    /\ run_result = None
    /\ dispatched = <<>>
    /\ stdout = <<>>
    /\ exit = Running

Did(name, ok) == [step |-> name, ok |-> ok]

\* a step that either succeeds or ends the process
Advance(name, ok, next, tag, detail) ==
    /\ log' = Append(log, Did(name, ok))
    /\ IF ok
        THEN pc' = next /\ exit' = exit
        ELSE pc' = "exited" /\ exit' = Exit(tag, detail, None)

\* Args::parse: clap runs validate_layout on --layout and exits on Err
ArgsParse ==
    /\ pc = "parse"
    /\ LET layout == validate_layout(argv.layout)
       IN  IF layout.ok
            THEN /\ args' = Some([argv EXCEPT !.layout = layout.val])
                 /\ Advance("Args::parse", TRUE, "metadata", "", "")
            ELSE /\ args' = None
                 /\ Advance("Args::parse", FALSE, "", "usage_exit", layout.err)
    /\ UNCHANGED <<argv, package, cwd, call, lock_output, service_configuration,
                   sierra_program, run_result, dispatched, stdout>>

\* MetadataCommand::new().inherit_stderr().exec().unwrap()
MetadataExec ==
    /\ pc = "metadata"
    /\ \E ok \in BOOLEAN : Advance("metadata", ok, "match_one", "panicked", "metadata")
    /\ UNCHANGED <<argv, args, package, cwd, call, lock_output, service_configuration,
                   sierra_program, run_result, dispatched, stdout>>

\* args.packages_filter.match_one(&metadata).unwrap()
MatchOne ==
    /\ pc = "match_one"
    /\ \E ok \in BOOLEAN : Advance("match_one", ok, "build", "panicked", "match_one")
    /\ UNCHANGED <<argv, args, package, cwd, call, lock_output, service_configuration,
                   sierra_program, run_result, dispatched, stdout>>

\* ScarbCommand::new().arg("build").run().unwrap()
Build ==
    /\ pc = "build"
    /\ \E ok \in BOOLEAN : Advance("build", ok, "env", "panicked", "build")
    /\ UNCHANGED <<argv, args, package, cwd, call, lock_output, service_configuration,
                   sierra_program, run_result, dispatched, stdout>>

\* env::var("SCARB_TARGET_DIR").unwrap(), env::var("SCARB_PROFILE").unwrap()
EnvVars ==
    /\ pc = "env"
    /\ \E ok \in BOOLEAN : Advance("env", ok, "resolve", "panicked", "env")
    /\ UNCHANGED <<argv, args, package, cwd, call, lock_output, service_configuration,
                   sierra_program, run_result, dispatched, stdout>>

\* absolute_path(&package, args.oracle_lock, "oracle_lock", Some("Oracle.lock")).expect(..)
ResolveLock ==
    /\ pc = "resolve"
    /\ lock_output' =
        absolute_path(package, args.val.oracle_lock, call.config_key, call.default)
    /\ Advance("absolute_path", lock_output'.some, "open", "panicked", "absolute_path")
    /\ UNCHANGED <<argv, args, package, cwd, call, service_configuration,
                   sierra_program, run_result, dispatched, stdout>>

\* File::open(lock_output).unwrap()
OpenLock ==
    /\ pc = "open"
    /\ \E ok \in BOOLEAN : Advance("File::open", ok, "parse_lock", "panicked", "File::open")
    /\ UNCHANGED <<argv, args, package, cwd, call, lock_output, service_configuration,
                   sierra_program, run_result, dispatched, stdout>>

\* variant: a manifest that fails to parse replaced by an empty configuration
ParseLockLenient ==
    /\ pc = "parse_lock"
    /\ \E parsed \in {None} \cup {Some(c) : c \in Configurations} :
        /\ service_configuration' = IF parsed.some THEN parsed ELSE Some({})
        /\ log' = Append(log, Did("from_reader", parsed.some))
        /\ pc' = "read"
        /\ exit' = exit
    /\ UNCHANGED <<argv, args, package, cwd, call, lock_output,
                   sierra_program, run_result, dispatched, stdout>>

\* serde_json::from_reader(reader).unwrap()
ParseLock ==
    /\ pc = "parse_lock"
    /\ \E parsed \in {None} \cup {Some(c) : c \in Configurations} :
        /\ service_configuration' = parsed
        /\ Advance("from_reader", parsed.some, "read", "panicked", "from_reader")
    /\ UNCHANGED <<argv, args, package, cwd, call, lock_output,
                   sierra_program, run_result, dispatched, stdout>>

\* fs::read_to_string(path).with_context(..).unwrap()
ReadSierra ==
    /\ pc = "read"
    /\ \E ok \in BOOLEAN :
        Advance("read_to_string", ok, "deserialize", "panicked", "read_to_string")
    /\ UNCHANGED <<argv, args, package, cwd, call, lock_output, service_configuration,
                   sierra_program, run_result, dispatched, stdout>>

\* serde_json::from_str::<VersionedProgram>(..).with_context(..).unwrap()
DeserializeSierra ==
    /\ pc = "deserialize"
    /\ \E ok \in BOOLEAN : Advance("from_str", ok, "into_v1", "panicked", "from_str")
    /\ UNCHANGED <<argv, args, package, cwd, call, lock_output, service_configuration,
                   sierra_program, run_result, dispatched, stdout>>

\* .into_v1().with_context(..).unwrap(); sierra_program.program
IntoV1 ==
    /\ pc = "into_v1"
    /\ \E loaded \in {None} \cup {Some(p) : p \in Programs} :
        /\ sierra_program' = loaded
        /\ Advance("into_v1", loaded.some, "run", "panicked", "into_v1")
    /\ UNCHANGED <<argv, args, package, cwd, call, lock_output, service_configuration,
                   run_result, dispatched, stdout>>

\* run_1(&service_configuration, &args.oracle_server, &args.layout, .., &sierra_program, "::main")
Run ==
    /\ pc = "run"
    /\ LET r == run_1(service_configuration.val, args.val.oracle_server, sierra_program.val)
       IN  /\ run_result' = Some(r.result)
           /\ dispatched' = r.dispatched
    /\ log' = Append(log, Did("run_1", TRUE))
    /\ pc' = "match"
    /\ UNCHANGED <<argv, args, package, cwd, call, lock_output, service_configuration,
                   sierra_program, stdout, exit>>

\* the arms of main's match
MatchResult ==
    /\ pc = "match"
    /\ LET m == main_match(run_result.val, stdout)
       IN  /\ stdout' = m.stdout
           /\ exit' = m.exit
    /\ pc' = "exited"
    /\ UNCHANGED <<argv, args, package, cwd, call, log, lock_output,
                   service_configuration, sierra_program, run_result, dispatched>>

Next ==
    \/ ArgsParse
    \/ MetadataExec
    \/ MatchOne
    \/ Build
    \/ EnvVars
    \/ ResolveLock
    \/ OpenLock
    \/ ParseLock
    \/ ReadSierra
    \/ DeserializeSierra
    \/ IntoV1
    \/ Run
    \/ MatchResult

Spec == Init /\ [][Next]_vars

----------------------------------------------------------------------------
(* absolute_path on its own: every combination of the three sources *)

StepsBefore(names) == [i \in 1..Len(names) |-> Did(names[i], TRUE)]

InitResolve ==
    /\ argv \in [layout : {"plain"},
                 no_build : {FALSE},
                 oracle_lock : {None} \cup {Some(p) : p \in RelativePaths \cup AbsolutePaths},
                 oracle_server : {None}]
    /\ args = Some(argv)
    /\ package \in [name : {"hints_poc"}, manifest_path : ManifestPaths, tool : ToolTables]
    /\ cwd \in WorkingDirs
    /\ call \in [config_key : {"oracle_lock"},
                 default : {None, Some(<<"Oracle.lock">>), Some(<<"/", "var", "Oracle.lock">>)}]
    /\ pc = "resolve"
    /\ log = StepsBefore(<<"Args::parse", "metadata", "match_one", "build", "env">>)
    /\ lock_output = None
    /\ service_configuration = None
    /\ sierra_program = None
    /\ run_result = None
    /\ dispatched = <<>>
    /\ stdout = <<>>
    /\ exit = Running

NextResolve == ResolveLock

SpecResolve == InitResolve /\ [][NextResolve]_vars

----------------------------------------------------------------------------
(* the executor's result and its report, over the richer felt samples *)

FormatPrograms ==
    [calls : {<<>>, <<"shirts">>, <<"sqrt">>}, terminal : Terminals(FeltSamples)]

InitFormat ==
    /\ argv = [layout |-> "plain", no_build |-> FALSE, oracle_lock |-> None,
               oracle_server |-> Some("http://127.0.0.1:3000")]
    /\ args = Some(argv)
    /\ package = HintsPoc
    /\ cwd = <<"/", "proj">>
    /\ call = MainCall
    /\ pc = "run"
    /\ log = StepsBefore(<<"Args::parse", "metadata", "match_one", "build", "env",
                           "absolute_path", "File::open", "from_reader",
                           "read_to_string", "from_str", "into_v1">>)
    /\ lock_output = Some(<<"/", "proj", "cfg", "tool.lock">>)
    /\ service_configuration = Some({"shirts"})
    /\ sierra_program \in {Some(p) : p \in FormatPrograms}
    /\ run_result = None
    /\ dispatched = <<>>
    /\ stdout = <<>>
    /\ exit = Running

NextFormat ==
    \/ Run
    \/ MatchResult

SpecFormat == InitFormat /\ [][NextFormat]_vars

----------------------------------------------------------------------------
(* Properties *)

Exited == pc = "exited"
Executed == run_result.some
Steps == [i \in 1..Len(log) |-> log[i].step]
Invoked(name) == \E i \in 1..Len(log) : log[i].step = name

IsReturnLine(line) == line[1] = Lit("Return values : [")
IsPanicLine(line) == line[1] = Lit("Run panicked with: [")

\* the outcome class of the executor's result
Outcome(result) ==
    IF result.ok THEN "ReturnValues"
    ELSE IF result.err.kind = "RunPanic" THEN "Panic"
    ELSE "Failure"

C1_Lines ==
    /\ Len(stdout) <= 1
    /\ \A i \in 1..Len(stdout) :
        /\ IsReturnLine(stdout[i]) <=> Outcome(run_result.val) = "ReturnValues"
        /\ IsPanicLine(stdout[i]) <=> Outcome(run_result.val) = "Panic"

\* C1 as stated: once main has matched the executor's result, at most one
\* outcome line was printed and it is the line of the result's class; the
\* process result is success for ReturnValues and Panic, and every other
\* error of run_1 is returned by main unchanged.
C1_AsStated ==
    (Exited /\ Executed) =>
        /\ C1_Lines
        /\ IF Outcome(run_result.val) \in {"ReturnValues", "Panic"}
            THEN exit = Exit("ok", "", None)
            ELSE exit = Exit("err", "", Some(run_result.val.err))

\* C1 amended: as above, except that Error::Cli is not returned by main:
\* the process ends through the CLI error's own exit.
C1_OutcomeAndResult ==
    (Exited /\ Executed) =>
        /\ C1_Lines
        /\ IF Outcome(run_result.val) \in {"ReturnValues", "Panic"}
            THEN exit = Exit("ok", "", None)
            ELSE IF run_result.val.err.kind = "Cli"
                THEN exit = Exit("cli_exit", "", Some(run_result.val.err))
                ELSE exit = Exit("err", "", Some(run_result.val.err))

C1_Witness ==
    /\ Exited /\ Executed
    /\ Outcome(run_result.val) = "Panic"
    /\ Len(stdout) = 1 /\ IsPanicLine(stdout[1])
    /\ exit.tag = "ok"

\* the string the manifest holds under [tool.hints] at the config key, if any
ManifestConfig ==
    IF /\ "hints" \in DOMAIN package.tool
       /\ package.tool["hints"].kind = "object"
       /\ call.config_key \in DOMAIN package.tool["hints"].obj
       /\ package.tool["hints"].obj[call.config_key].kind = "string"
        THEN Some(package.tool["hints"].obj[call.config_key].str)
        ELSE None

\* a chosen path made absolute against the manifest's directory
AgainstManifestDir(p) ==
    IF p[1] = "/"
        THEN p
        ELSE SubSeq(package.manifest_path, 1, Len(package.manifest_path) - 1) \o p

Resolved == Invoked("absolute_path")

\* C2: the explicit argument wins over everything; without it the manifest's
\* string wins over the default; without both the default is used; and
\* resolution fails exactly when all three are absent.
C2_Precedence ==
    Resolved =>
        LET a == args.val.oracle_lock
            m == ManifestConfig
            d == call.default
        IN  /\ a.some => lock_output = Some(AgainstManifestDir(a.val))
            /\ (~a.some /\ m.some) => lock_output = Some(AgainstManifestDir(m.val))
            /\ (~a.some /\ ~m.some /\ d.some) => lock_output = Some(AgainstManifestDir(d.val))
            /\ (~a.some /\ ~m.some /\ ~d.some) <=> ~lock_output.some
            /\ ~lock_output.some <=> exit = Exit("panicked", "absolute_path", None)

C2_Witness ==
    /\ Resolved
    /\ args.val.oracle_lock.some /\ ManifestConfig.some /\ call.default.some
    /\ args.val.oracle_lock.val # ManifestConfig.val
    /\ args.val.oracle_lock.val # call.default.val
    /\ lock_output = Some(AgainstManifestDir(args.val.oracle_lock.val))

\* the path lock resolution chose, whichever source it came from
Chosen ==
    IF args.val.oracle_lock.some THEN args.val.oracle_lock
    ELSE IF ManifestConfig.some THEN ManifestConfig
    ELSE call.default

\* C3: the resolved path is the chosen path itself when that is absolute and
\* the manifest's directory joined with it otherwise, for all three sources
\* and whatever the current working directory is.
C3_ManifestRelative ==
    (Resolved /\ Chosen.some) =>
        /\ lock_output.some
        /\ Chosen.val[1] = "/" => lock_output.val = Chosen.val
        /\ Chosen.val[1] # "/" =>
            lock_output.val =
                SubSeq(package.manifest_path, 1, Len(package.manifest_path) - 1)
                    \o Chosen.val

C3_Witness ==
    /\ Resolved
    /\ args.val.oracle_lock = Some(<<"..", "shared.lock">>)
    /\ package.manifest_path = <<"/", "ws", "pkg", "Scarb.toml">>
    /\ cwd = <<"/", "home", "user">>
    /\ lock_output = Some(<<"/", "ws", "pkg", "..", "shared.lock">>)

\* the closed layout set of the data model
ClosedLayoutSet ==
    {"plain", "small", "dex", "starknet", "starknet_with_keccak",
     "recursive_large_output", "all_cairo", "all_solidity", "dynamic"}

Parsed == Invoked("Args::parse")

\* C4: a layout string is accepted, and kept unchanged, exactly when it is
\* in the closed set; any other string is rejected with the one error that
\* names it.
C4_LayoutValidation ==
    Parsed =>
        IF argv.layout \in ClosedLayoutSet
            THEN /\ args = Some(argv)
                 /\ log[1] = Did("Args::parse", TRUE)
            ELSE /\ args = None
                 /\ log = <<Did("Args::parse", FALSE)>>
                 /\ exit = Exit("usage_exit", argv.layout \o " is not a valid layout", None)

C4_Witness ==
    /\ Parsed
    /\ argv.layout = "starknet_with_keccak2"
    /\ exit = Exit("usage_exit", "starknet_with_keccak2 is not a valid layout", None)

\* the first oracle call execution reaches that the configuration lacks
UnauthorizedCallAt(i) ==
    LET calls == sierra_program.val.calls
    IN  /\ i \in 1..Len(calls)
        /\ calls[i] \notin service_configuration.val
        /\ \A j \in 1..(i - 1) :
            calls[j] \in service_configuration.val /\ args.val.oracle_server.some

StepsBeforeExecution ==
    <<"Args::parse", "metadata", "match_one", "build", "env", "absolute_path",
      "File::open", "from_reader", "read_to_string", "from_str", "into_v1">>

\* C6: the executor runs only after every earlier step, in the order of
\* main, succeeded; a step that fails is the last step of the run; and the
\* executor gets the configuration and the program those steps produced.
C6_ExecutionAfterLoading ==
    /\ \A i \in 1..Len(log) :
        log[i].step = "run_1" =>
            /\ SubSeq(Steps, 1, i - 1) = StepsBeforeExecution
            /\ \A j \in 1..(i - 1) : log[j].ok
            /\ lock_output.some
            /\ service_configuration.some
            /\ sierra_program.some
    /\ \A i \in 1..Len(log) :
        ~log[i].ok => (i = Len(log) /\ Exited /\ ~Executed)

C6_Witness ==
    /\ Exited /\ Executed
    /\ log[Len(log)] = Did("run_1", TRUE)
    /\ service_configuration = Some({"shirts"})

\* C7: with a layout outside the closed set, argument parsing is the only
\* step the run performs.
C7_InvalidLayoutStopsAtParse ==
    argv.layout \notin ClosedLayoutSet =>
        /\ \A i \in 1..Len(log) : log[i].step = "Args::parse"
        /\ Len(log) <= 1
        /\ ~Executed
        /\ lock_output = None /\ service_configuration = None /\ sierra_program = None

C7_Witness ==
    /\ argv.layout = "Plain"
    /\ Exited
    /\ log = <<Did("Args::parse", FALSE)>>
    /\ exit.tag = "usage_exit"

BuildCount == Cardinality({i \in 1..Len(log) : log[i].step = "build"})

\* C9: with no_build set the build collaborator is never invoked; without
\* it the build collaborator is invoked once, before the artifact is read.
C9_NoBuildSkipsBuild ==
    /\ argv.no_build => BuildCount = 0
    /\ (~argv.no_build /\ Invoked("read_to_string")) =>
        /\ BuildCount = 1
        /\ \A i, j \in 1..Len(log) :
            (log[i].step = "build" /\ log[j].step = "read_to_string") => i < j

\* the felts whose 32 big-endian bytes are well-formed UTF-8
KnownUtf8 == {0, 65, 50089, 14844588}

\* the 32 big-endian bytes of a felt below 2^32
C8_Bytes(m) == [i \in 1..32 |-> IF i <= 28 THEN 0 ELSE (m \div (256 ^ (32 - i))) % 256]

C8_Element(m) ==
    IF m \in KnownUtf8
        THEN <<Lit(ToString(m)), Lit(" ('"), Text(C8_Bytes(m)), Lit("')")>>
        ELSE <<Lit(ToString(m))>>

RECURSIVE C8_Joined(_)
C8_Joined(payload) ==
    IF Len(payload) = 1 THEN C8_Element(payload[1])
    ELSE C8_Element(payload[1]) \o <<Lit(", ")>> \o C8_Joined(Tail(payload))

\* C8: each value of a non-empty panic payload is printed as its decimal
\* alone when its big-endian bytes are not UTF-8 and as the decimal followed
\* by the decoded text when they are, the elements in payload order.
C8_PanicRendering ==
    (Exited /\ Executed /\ Outcome(run_result.val) = "Panic"
            /\ run_result.val.err.data # <<>>) =>
        stdout = << <<Lit("Run panicked with: [")>>
                        \o C8_Joined(run_result.val.err.data)
                        \o <<Lit("]")>> >>

C8_Witness ==
    /\ Exited /\ Executed
    /\ Outcome(run_result.val) = "Panic"
    /\ run_result.val.err.data = <<15573120, 50089>>
    /\ stdout = << <<Lit("Run panicked with: ["), Lit("15573120"), Lit(", "),
                     Lit("50089"), Lit(" ('"),
                     Text([i \in 1..32 |-> IF i = 31 THEN 195 ELSE IF i = 32 THEN 169 ELSE 0]),
                     Lit("')"), Lit("]")>> >>

RECURSIVE C10_Decimals(_)
C10_Decimals(vals) ==
    IF Len(vals) = 1 THEN <<Lit(ToString(vals[1]))>>
    ELSE <<Lit(ToString(vals[1])), Lit(", ")>> \o C10_Decimals(Tail(vals))

\* C10: an empty return-value list and an empty panic payload print nothing
\* and end in success; a line is printed only for a non-empty sequence, and
\* for return values it lists them comma-joined in the order produced.
C10_EmptyOutcomeSilence ==
    (Exited /\ Executed) =>
        LET r == run_result.val
            payload == IF r.ok THEN r.val ELSE r.err.data
        IN  /\ (Outcome(r) # "Failure" /\ payload = <<>>) =>
                (stdout = <<>> /\ exit = Exit("ok", "", None))
            /\ stdout # <<>> => (Outcome(r) # "Failure" /\ payload # <<>>)
            /\ (r.ok /\ r.val # <<>>) =>
                stdout = << <<Lit("Return values : [")>> \o C10_Decimals(r.val)
                                \o <<Lit("]")>> >>

C10_Witness ==
    /\ Exited /\ Executed
    /\ run_result.val.ok /\ run_result.val.val = <<>>
    /\ stdout = <<>>
    /\ exit.tag = "ok"

====
